---- MODULE Spec2Model ----
(***************************************************************************)
(* Model of app.py: the page processor (render_pdf_page_as_image_bytes,    *)
(* extract_text_from_image_bytes), the file pipeline (process_pdf) and the *)
(* batch driver (the module-level loop over uploaded_files).               *)
(*                                                                         *)
(* Strings are modelled as TLA+ strings and built exactly as the f-strings *)
(* of the source build them.  A filename is a tuple of one-character       *)
(* strings so that Path(filename).stem can be computed.                    *)
(***************************************************************************)
EXTENDS Naturals, Integers, Sequences, FiniteSets, TLC

VARIABLES
    uploaded_files,         \* the batch: sequence of uploaded files
    fileIdx,                \* position of the batch loop (1-based)
    results_summary,        \* list built by the batch loop
    storage,                \* durable storage: path -> content written
    pc,                     \* control position
    filename,               \* process_pdf local
    num_pages,              \* process_pdf local
    i,                      \* process_pdf loop variable (0-based page index)
    all_pages_text,         \* process_pdf local: list of page sections
    processing_successful,  \* process_pdf local
    partial_success,        \* process_pdf local
    image_bytes,            \* process_pdf local: result of the last render
    render_time,            \* seconds the last render call took
    elapsed_time_page,      \* process_pdf local (last measured value)
    ret,                    \* the pair returned by process_pdf
    status_messages,        \* final status line written for each file so far
    log,                    \* history: what each attempted page of this file did
    storage0,               \* history: storage when process_pdf was entered
    runs,                   \* history: one record per file processed so far
    prev_inputs,            \* history: what the pages of the previous file did
    clock,                  \* time.time() since process_pdf was entered, in
                            \* ticks of 0.1 s
    start_time_page,        \* process_pdf local (clock reading)
    written,                \* history: progress of the write of this call
    r_pc,                   \* render_pdf_page_as_image_bytes: control position
    r_in,                   \* render_pdf_page_as_image_bytes: arguments
    r_doc,                  \* render_pdf_page_as_image_bytes: the handle "doc"
    r_out                   \* render_pdf_page_as_image_bytes: value returned

\* state of one call of render_pdf_page_as_image_bytes followed step by step
rvars == << r_pc, r_in, r_doc, r_out >>

\* state of the batch driver and of process_pdf
pvars == << uploaded_files, fileIdx, results_summary, storage, pc, filename,
            num_pages, i, all_pages_text, processing_successful,
            partial_success, image_bytes, render_time, elapsed_time_page,
            ret, status_messages, log, storage0, runs,
            prev_inputs, clock, start_time_page, written >>

vars == << pvars, rvars >>

-----------------------------------------------------------------------------
(* Bounds of the model *)

MaxFiles == 2

MaxPages == 2

\* pages of all files of a batch together
MaxTotalPages == 3

-----------------------------------------------------------------------------
(* Configuration (app.py lines 12-14) *)

OUTPUT_DIR == "md_docs"

MAX_PROCESSING_TIME_PER_PAGE_SECONDS == 120

\* Python's None, as returned by the helpers and by process_pdf
None == "<None>"

\* Variant for C9: "is not None" instead of truthiness
TruthyNotNone(v) == v # None

\* Python truthiness of a bytes/str-or-None value ("if image_bytes:")
Truthy(v) == v # None /\ v # ""

-----------------------------------------------------------------------------
(* Inputs *)

\* Names of uploaded files (the uploader accepts only type "pdf")
FileNames == { <<"a", ".", "p", "d", "f">>,
               <<"a", ".", "b", ".", "p", "d", "f">> }

\* An uploaded file: its name, the number of pages of the document and
\* whether fitz.open can read it at all.
\* (an unreadable document has no page count: it is listed with 0 pages)
UploadedFile ==
    { f \in [ name : FileNames, pages : 0..MaxPages, readable : BOOLEAN ] :
        ~f.readable => f.pages = 0 }

\* Seconds a render call may take, and seconds a model call may take
RenderTimes == {1, 121}

ExtractTimes == {119, 120}

RECURSIVE Join(_)
\* "".join(list)
Join(s) == IF s = <<>> THEN "" ELSE Head(s) \o Join(Tail(s))

RECURSIVE LastDot(_, _)
\* index of the last "." of name at or before position n, 0 if none
LastDot(name, n) ==
    IF n = 0 THEN 0
    ELSE IF name[n] = "." THEN n ELSE LastDot(name, n - 1)

\* Path(filename).stem: the name without its last suffix; a leading dot
\* or a trailing dot does not start a suffix
Stem(name) ==
    LET d == LastDot(name, Len(name))
    IN  IF d > 1 /\ d < Len(name) THEN SubSeq(name, 1, d - 1) ELSE name

\* str(Path(output_dir) / f"{Path(filename).stem}.md")
OutputPath(output_dir, name) == output_dir \o "/" \o Join(Stem(name)) \o ".md"

\* The image of page page_num (0-based) of a document, and the text an
\* accurate model reads from it
PageImage(page_num) == "png-of-page-" \o ToString(page_num)

PageText(image) == "text-of-" \o image

\* What the model call can return for an image: the text, an empty
\* answer, or None after an error
ModelResponses(image) == { PageText(image), "", None }

-----------------------------------------------------------------------------
(* Page sections and the output document (lines 146-158, 172-174, 191-197) *)

PageHeading(page_num) == "## Page " \o ToString(page_num) \o "\n\n"

\* Variant for C1: the heading numbered with the 0-based index
SectionOffByOne(page_num, body) ==
    PageHeading(page_num - 1) \o body \o "\n\n---\n"

Section(page_num, body) == PageHeading(page_num) \o body \o "\n\n---\n"

EXTRACTION_FAILED == "[Text extraction failed for this page]"

RENDER_FAILED == "[Page rendering failed]"

Title(name) == "# OCR Output for: " \o Join(name) \o "\n\n"

NOTE == "**Note:** Text extraction or page rendering failed for one or more pages. The output may be incomplete.\n\n---\n\n"

\* Variant for C4: the note is never written
DocumentWithoutNote(name, partial, pages_text) ==
    << Title(name), Join(pages_text) >>

\* The sequence of f.write calls of lines 191-197
Document(name, partial, pages_text) ==
    << Title(name) >> \o (IF partial THEN << NOTE >> ELSE << >>)
                      \o << Join(pages_text) >>

NoFile == << >>

NoInputs == [ calls |-> << >>, over |-> {} ]

\* Variant for C11: an existing file is not overwritten
WriteFileKeepsExisting(store, path, content) ==
    IF store[path] = NoFile THEN [store EXCEPT ![path] = content] ELSE store

\* Variant for C12: the file opened in append mode
WriteFileAppending(store, path, content) ==
    [store EXCEPT ![path] = store[path] \o content]

\* open(output_filename, "w") followed by the writes: the content replaces
\* whatever the path held
WriteFile(store, path, content) == [store EXCEPT ![path] = content]

Paths == { OutputPath(OUTPUT_DIR, n) : n \in FileNames }

-----------------------------------------------------------------------------
(* render_pdf_page_as_image_bytes, lines 32-49 *)

\* fault: whether rasterizing or encoding raises
render_pdf_page_as_image_bytes(file, page_num, fault) ==
    IF ~file.readable THEN None
    ELSE IF page_num >= file.pages THEN None
    ELSE IF fault THEN None
    ELSE PageImage(page_num)

\* Where a call can raise after the document is open: nowhere, in
\* load_page / get_pixmap / Image.frombytes, or in img.save
RenderFaults == {"none", "rasterize", "encode"}

\* The same function followed line by line, for one call with arguments
\* r_in; r_doc is the state of the handle the call opens.

\* line 33: doc = fitz.open(...)
RenderOpen ==
    /\ r_pc = "open"
    /\ IF r_in.file.readable
       THEN r_doc' = "open" /\ r_pc' = "check"
       ELSE r_doc' = r_doc /\ r_pc' = "except"
    /\ UNCHANGED << r_in, r_out, pvars >>

\* lines 34-36: the range check and its "return None"
RenderCheckRange ==
    /\ r_pc = "check"
    /\ IF r_in.page_num >= r_in.file.pages
       THEN r_out' = None /\ r_pc' = "return"
       ELSE r_out' = r_out /\ r_pc' = "rasterize"
    /\ UNCHANGED << r_in, r_doc, pvars >>

\* lines 38-41: load_page, get_pixmap, Image.frombytes
RenderRasterize ==
    /\ r_pc = "rasterize"
    /\ r_pc' = IF r_in.fault = "rasterize" THEN "except" ELSE "encode"
    /\ UNCHANGED << r_in, r_doc, r_out, pvars >>

\* lines 42-44: img.save into the byte buffer
RenderEncode ==
    /\ r_pc = "encode"
    /\ r_pc' = IF r_in.fault = "encode" THEN "except" ELSE "close"
    /\ UNCHANGED << r_in, r_doc, r_out, pvars >>

\* lines 45-46: doc.close() and "return img_byte_arr"
RenderClose ==
    /\ r_pc = "close"
    /\ r_doc' = "closed"
    /\ r_out' = PageImage(r_in.page_num)
    /\ r_pc' = "return"
    /\ UNCHANGED << r_in, pvars >>

\* lines 47-49: the handler, "return None"
RenderExcept ==
    /\ r_pc = "except"
    /\ r_out' = None
    /\ r_pc' = "return"
    /\ UNCHANGED << r_in, r_doc, pvars >>

\* The call returns and "doc" goes out of scope.  Nothing in the function
\* closes a handle that is still open; whether the runtime finalizes the
\* object at this point is not determined by the code.
RenderReturn ==
    /\ r_pc = "return"
    /\ \E finalized \in BOOLEAN :
          r_doc' = IF r_doc = "open" /\ finalized THEN "closed" ELSE r_doc
    /\ r_pc' = "done"
    /\ UNCHANGED << r_in, r_out, pvars >>

NextRender ==
    \/ RenderOpen
    \/ RenderCheckRange
    \/ RenderRasterize
    \/ RenderEncode
    \/ RenderClose
    \/ RenderExcept
    \/ RenderReturn

-----------------------------------------------------------------------------
RECURSIVE TotalPages(_)
TotalPages(files) ==
    IF files = << >> THEN 0 ELSE Head(files).pages + TotalPages(Tail(files))

\* The batches the model explores
Batches ==
    { b \in UNION { [1..m -> UploadedFile] : m \in 1..MaxFiles } :
        TotalPages(b) <= MaxTotalPages }

\* Nothing processed yet
PipelineIdle ==
    /\ fileIdx = 1
    /\ results_summary = << >>
    /\ storage = [p \in Paths |-> NoFile]
    /\ pc = "batch"
    /\ filename = << >>
    /\ num_pages = 0
    /\ i = 0
    /\ all_pages_text = << >>
    /\ processing_successful = TRUE
    /\ partial_success = FALSE
    /\ image_bytes = None
    /\ render_time = 0
    /\ elapsed_time_page = 0
    /\ ret = [success |-> FALSE, output_path |-> None]
    /\ status_messages = << >>
    /\ log = << >>
    /\ storage0 = storage
    /\ runs = << >>
    /\ prev_inputs = NoInputs
    /\ clock = 0
    /\ start_time_page = 0
    /\ written = "none"

Init ==
    /\ uploaded_files \in Batches
    /\ PipelineIdle
    /\ r_pc = "idle"
    /\ r_in = [file |-> uploaded_files[1], page_num |-> 0, fault |-> "none"]
    /\ r_doc = "none"
    /\ r_out = None

-----------------------------------------------------------------------------
(* process_pdf *)

\* Variant for C17: the handler reports success
ReturnExceptionAsSuccess == [success |-> TRUE, output_path |-> None]

\* Variant for C5: the empty document reported as processed
ReturnEmptyAsSuccess == [success |-> TRUE, output_path |-> None]

\* the values of "return False, None" at lines 123, 210, 213 and 219
ReturnEmpty == [success |-> FALSE, output_path |-> None]

ReturnCritical == [success |-> FALSE, output_path |-> None]

ReturnNoText == [success |-> FALSE, output_path |-> None]

ReturnException == [success |-> FALSE, output_path |-> None]

\* "return True, output_path" at line 205
ReturnWritten(output_path) == [success |-> TRUE, output_path |-> output_path]

\* Variant for C7: the critical-failure flag is not consulted
ShouldSaveIgnoringTimeout(successful, pages_text) == pages_text # << >>

\* the condition of line 186
ShouldSave(successful, pages_text) == successful /\ pages_text # << >>

\* seconds as ticks of the clock
Ticks(seconds) == seconds * 10

\* time.sleep(0.1) at line 181: one tick
AfterSleep(now) == now + 1

\* Variant for C16: the budget itself counts as exceeded
TimedOutInclusive(elapsed) ==
    elapsed >= Ticks(MAX_PROCESSING_TIME_PER_PAGE_SECONDS)

\* the condition of line 162 (elapsed in ticks)
TimedOut(elapsed) == elapsed > Ticks(MAX_PROCESSING_TIME_PER_PAGE_SECONDS)

\* the status line of lines 201-204
SuccessMessage(partial) ==
    "Successfully " \o (IF partial THEN "partially " ELSE "") \o "processed"

\* Variant for C18: the loop is left one page early
AfterPageSkipsLast(page, n) == IF page + 2 < n THEN "loop" ELSE "save"

\* Variant for C8: the loop is left after the first page
AfterPageStops(page, n) == "save"

\* Variant for C15: the loop never leaves for the code after it
AfterPageNeverLeaves(page, n) == "loop"

\* position after the bottom of the loop body (lines 177-181): the next
\* page, or the code after the loop when range(num_pages) is exhausted
AfterPage(page, n) == IF page + 1 < n THEN "loop" ELSE "save"

\* Lines 108-128: entry of process_pdf for the file the batch loop is at
StartFile ==
    /\ pc = "batch"
    /\ fileIdx <= Len(uploaded_files)
    /\ LET file == uploaded_files[fileIdx] IN
        /\ filename' = file.name
        /\ processing_successful' = TRUE
        /\ partial_success' = FALSE
        /\ all_pages_text' = << >>
        /\ i' = 0
        /\ image_bytes' = None
        /\ render_time' = 0
        /\ elapsed_time_page' = 0
        /\ log' = << >>
        /\ storage0' = storage
        /\ clock' = 0
        /\ start_time_page' = 0
        /\ written' = "none"
        /\ IF ~file.readable
           THEN \* fitz.open raises: handler of lines 215-219
                /\ num_pages' = 0
                /\ ret' = ReturnException
                /\ status_messages' =
                       Append(status_messages, "Critical error processing")
                /\ pc' = "returned"
           ELSE IF file.pages = 0
           THEN \* lines 121-123
                /\ num_pages' = 0
                /\ ret' = ReturnEmpty
                /\ status_messages' =
                       Append(status_messages, "Skipping: No pages found")
                /\ pc' = "returned"
           ELSE /\ num_pages' = file.pages
                /\ ret' = ret
                /\ status_messages' = status_messages
                /\ pc' = "loop"
    /\ UNCHANGED << uploaded_files, fileIdx, results_summary, storage, runs,
                    prev_inputs, rvars >>

\* Variant for C14: a page that fails rendering gets no placeholder
RenderPageSkipsPlaceholder ==
    /\ pc = "loop"
    /\ \E fault \in BOOLEAN, t \in RenderTimes :
        LET img == render_pdf_page_as_image_bytes(uploaded_files[fileIdx], i, fault)
        IN  /\ image_bytes' = img
            /\ render_time' = t
            /\ start_time_page' = clock
            /\ log' = Append(log, [op |-> "render", page |-> i,
                                   result |-> img, time |-> t])
            /\ IF Truthy(img)
               THEN /\ pc' = "extract"
                    /\ clock' = clock + Ticks(t)
                    /\ UNCHANGED << all_pages_text, partial_success, i >>
               ELSE /\ all_pages_text' = all_pages_text
                    /\ partial_success' = TRUE
                    /\ i' = i + 1
                    /\ clock' = AfterSleep(clock + Ticks(t))
                    /\ pc' = AfterPage(i, num_pages)
    /\ UNCHANGED << uploaded_files, fileIdx, results_summary, storage, filename,
                    num_pages, processing_successful, elapsed_time_page, ret,
                    status_messages, storage0, runs, prev_inputs, written,
                    rvars >>

\* Lines 131-137 and, when rendering fails, lines 168-181
RenderPage ==
    /\ pc = "loop"
    /\ \E fault \in BOOLEAN, t \in RenderTimes :
        LET img == render_pdf_page_as_image_bytes(uploaded_files[fileIdx], i, fault)
        IN  /\ image_bytes' = img
            /\ render_time' = t
            /\ start_time_page' = clock
            /\ log' = Append(log, [op |-> "render", page |-> i,
                                   result |-> img, time |-> t])
            /\ IF Truthy(img)
               THEN /\ pc' = "extract"
                    /\ clock' = clock + Ticks(t)
                    /\ UNCHANGED << all_pages_text, partial_success, i >>
               ELSE /\ all_pages_text' =
                         Append(all_pages_text, Section(i + 1, RENDER_FAILED))
                    /\ partial_success' = TRUE
                    /\ i' = i + 1
                    /\ clock' = AfterSleep(clock + Ticks(t))
                    /\ pc' = AfterPage(i, num_pages)
    /\ UNCHANGED << uploaded_files, fileIdx, results_summary, storage, filename,
                    num_pages, processing_successful, elapsed_time_page, ret,
                    status_messages, storage0, runs, prev_inputs, written,
                    rvars >>

\* Lines 138-167 and, when the loop goes on, lines 177-181
ExtractPage ==
    /\ pc = "extract"
    /\ \E extracted_text \in ModelResponses(image_bytes), t \in ExtractTimes :
        LET now == clock + Ticks(t)
            elapsed == now - start_time_page
        IN
            /\ log' = Append(log, [op |-> "extract", page |-> i,
                                   result |-> extracted_text, time |-> t])
            /\ IF Truthy(extracted_text)
               THEN /\ all_pages_text' =
                         Append(all_pages_text, Section(i + 1, extracted_text))
                    /\ partial_success' = partial_success
               ELSE /\ all_pages_text' =
                         Append(all_pages_text, Section(i + 1, EXTRACTION_FAILED))
                    /\ partial_success' = TRUE
            /\ elapsed_time_page' = elapsed
            /\ IF TimedOut(elapsed)
               THEN /\ processing_successful' = FALSE
                    /\ i' = i
                    /\ clock' = now
                    /\ pc' = "save"
               ELSE /\ processing_successful' = processing_successful
                    /\ i' = i + 1
                    /\ clock' = AfterSleep(now)
                    /\ pc' = AfterPage(i, num_pages)
    /\ UNCHANGED << uploaded_files, fileIdx, results_summary, storage, filename,
                    num_pages, image_bytes, render_time, ret, status_messages,
                    storage0, runs, prev_inputs, start_time_page, written,
                    rvars >>

\* Lines 183-213: file saving and the return of process_pdf
SaveFile ==
    /\ pc = "save"
    /\ IF ShouldSave(processing_successful, all_pages_text)
       THEN LET output_path == OutputPath(OUTPUT_DIR, filename) IN
            /\ storage' = WriteFile(storage, output_path,
                              Document(filename, partial_success, all_pages_text))
            /\ status_messages' =
                   Append(status_messages, SuccessMessage(partial_success))
            /\ ret' = ReturnWritten(output_path)
            /\ written' = "complete"
       ELSE IF ~processing_successful
       THEN /\ storage' = storage
            /\ status_messages' =
                   Append(status_messages, "Failed to process due to critical error")
            /\ ret' = ReturnCritical
            /\ written' = written
       ELSE /\ storage' = storage
            /\ status_messages' =
                   Append(status_messages, "No text could be extracted")
            /\ ret' = ReturnNoText
            /\ written' = written
    /\ pc' = "returned"
    /\ UNCHANGED << uploaded_files, fileIdx, results_summary, filename,
                    num_pages, i, all_pages_text, processing_successful,
                    partial_success, image_bytes, render_time,
                    elapsed_time_page, log, storage0, runs, prev_inputs,
                    clock, start_time_page, rvars >>

\* a file that open(..., "w") created or truncated and nothing was written to
EmptyFile == << "" >>

\* content of the file when the write number k + 1 raises
PartialContent(doc, k) == IF k = 0 THEN EmptyFile ELSE SubSeq(doc, 1, k)

\* Lines 186-197 when os.makedirs, open or a write raises, and the handler
\* of lines 215-219.  stage 0: makedirs or open raises and the path is not
\* touched; stage k > 0: write number k raises after the earlier ones.
SaveFileFails ==
    /\ pc = "save"
    /\ ShouldSave(processing_successful, all_pages_text)
    /\ LET output_path == OutputPath(OUTPUT_DIR, filename)
           doc == Document(filename, partial_success, all_pages_text)
       IN  \E stage \in 0..Len(doc) :
               /\ storage' = IF stage = 0 THEN storage
                             ELSE WriteFile(storage, output_path,
                                            PartialContent(doc, stage - 1))
               /\ written' = IF stage = 0 THEN "none" ELSE "partial"
    /\ ret' = ReturnException
    /\ status_messages' = Append(status_messages, "Critical error processing")
    /\ pc' = "returned"
    /\ UNCHANGED << uploaded_files, fileIdx, results_summary, filename,
                    num_pages, i, all_pages_text, processing_successful,
                    partial_success, image_bytes, render_time,
                    elapsed_time_page, log, storage0, runs, prev_inputs,
                    clock, start_time_page, rvars >>

-----------------------------------------------------------------------------
(* Batch driver, lines 252-312 *)

RECURSIVE SecondsOn(_, _, _)
\* seconds the first k events of the history lg spent on page p
SecondsOn(lg, p, k) ==
    IF k = 0 THEN 0
    ELSE (IF lg[k].page = p THEN lg[k].time ELSE 0) + SecondsOn(lg, p, k - 1)

\* History of the inputs of the current call of process_pdf: what the
\* renderer and the model returned for each page, and which pages went
\* over the budget
RunInputs ==
    [ calls |-> [k \in 1..Len(log) |->
                   [op |-> log[k].op, page |-> log[k].page,
                    result |-> log[k].result]],
      over  |-> { p \in { log[k].page : k \in 1..Len(log) } :
                    SecondsOn(log, p, Len(log)) > 120 } ]

\* the next file of the batch is the same document under the same name:
\* only then are the inputs of this call kept for comparison
NextIsSameDocument ==
    /\ fileIdx < Len(uploaded_files)
    /\ uploaded_files[fileIdx + 1] = uploaded_files[fileIdx]

\* History record of the call of process_pdf that has just returned: the
\* pair returned, the document the call built if it wrote one, and the
\* content then stored at the path returned
RunRecord ==
    [ ret    |-> ret,
      doc    |-> IF ret.output_path = None THEN NoFile
                 ELSE Document(filename, partial_success, all_pages_text),
      stored |-> IF ret.output_path = None THEN NoFile
                 ELSE storage[ret.output_path] ]

\* Variant for C6: the entry names the file most recently recorded before it
RecordResultStaleName ==
    /\ pc = "returned"
    /\ results_summary' =
           Append(results_summary,
                  [filename |-> uploaded_files[IF fileIdx > 1 THEN fileIdx - 1
                                               ELSE fileIdx].name,
                   success |-> ret.success,
                   output_path |-> ret.output_path])
    /\ fileIdx' = fileIdx + 1
    /\ pc' = "batch"
    /\ runs' = Append(runs, RunRecord)
    /\ prev_inputs' = IF NextIsSameDocument THEN RunInputs ELSE NoInputs
    /\ UNCHANGED << uploaded_files, storage, filename, num_pages, i,
                    all_pages_text, processing_successful, partial_success,
                    image_bytes, render_time, elapsed_time_page, ret,
                    status_messages, log, storage0, clock, start_time_page,
                    written, rvars >>

\* Lines 271-281: the entry appended for the file just processed
RecordResult ==
    /\ pc = "returned"
    /\ results_summary' =
           Append(results_summary,
                  [filename |-> uploaded_files[fileIdx].name,
                   success |-> ret.success,
                   output_path |-> ret.output_path])
    /\ fileIdx' = fileIdx + 1
    /\ pc' = "batch"
    /\ runs' = Append(runs, RunRecord)
    /\ prev_inputs' = IF NextIsSameDocument THEN RunInputs ELSE NoInputs
    /\ UNCHANGED << uploaded_files, storage, filename, num_pages, i,
                    all_pages_text, processing_successful, partial_success,
                    image_bytes, render_time, elapsed_time_page, ret,
                    status_messages, log, storage0, clock, start_time_page,
                    written, rvars >>

\* Lines 283-289: the loop over the files is exhausted
BatchComplete ==
    /\ pc = "batch"
    /\ fileIdx > Len(uploaded_files)
    /\ pc' = "complete"
    /\ UNCHANGED << uploaded_files, fileIdx, results_summary, storage, filename,
                    num_pages, i, all_pages_text, processing_successful,
                    partial_success, image_bytes, render_time,
                    elapsed_time_page, ret, status_messages, log, storage0,
                    runs, prev_inputs, clock, start_time_page, written,
                    rvars >>

\* Lines 293-312: the lines of the displayed summary, successes first
SummaryLine(result) ==
    IF result.success
    THEN "OK " \o Join(result.filename) \o " -> Output saved to " \o result.output_path
    ELSE "FAILED " \o Join(result.filename) \o " (Check logs)"

Next ==
    \/ StartFile
    \/ RenderPage
    \/ ExtractPage
    \/ SaveFile
    \/ RecordResult
    \/ BatchComplete

Spec == Init /\ [][Next]_vars

\* The pipeline when saving the output can fail (directory or file not
\* writable, disk full)
NextWithWriteFaults == Next \/ SaveFileFails

SpecWriteFaults == Init /\ [][NextWithWriteFaults]_vars

\* The script runs to its end: every call returns and the loops go on
\* whenever a step is possible
FairSpec == Spec /\ WF_vars(Next)

\* One call of render_pdf_page_as_image_bytes on any document, page number
\* and fault
InitRender ==
    /\ uploaded_files \in { << f >> : f \in UploadedFile }
    /\ PipelineIdle
    /\ r_pc = "open"
    /\ r_in \in [ file : { uploaded_files[1] }, page_num : 0..MaxPages,
                   fault : RenderFaults ]
    /\ r_doc = "none"
    /\ r_out = None

SpecRender == InitRender /\ [][NextRender]_vars

-----------------------------------------------------------------------------
(* Vocabulary of the properties: what the history of the current file says *)

\* control is inside process_pdf, or has just returned from it
InFile == pc \in {"loop", "extract", "save", "returned"}

\* the file process_pdf is working on
CurrentFile == uploaded_files[fileIdx]

FailurePair == [success |-> FALSE, output_path |-> None]

Events(op, p) == { k \in 1..Len(log) : log[k].op = op /\ log[k].page = p }

RenderCalled(p) == Events("render", p) # {}

ModelCalled(p) == Events("extract", p) # {}

RenderOk(p) == \E k \in Events("render", p) : log[k].result \notin {None, ""}

ExtractOk(p) == \E k \in Events("extract", p) : log[k].result \notin {None, ""}

\* the page has been through the loop body: its render failed, or its
\* model call returned
PageDone(p) == (RenderCalled(p) /\ ~RenderOk(p)) \/ ModelCalled(p)

PageFailed(p) == PageDone(p) /\ ~(RenderOk(p) /\ ExtractOk(p))

RECURSIVE TimeUpTo(_, _)
TimeUpTo(p, k) ==
    IF k = 0 THEN 0
    ELSE (IF log[k].page = p THEN log[k].time ELSE 0) + TimeUpTo(p, k - 1)

\* seconds spent rendering and extracting page p
PageTime(p) == TimeUpTo(p, Len(log))

OverBudget(p) == PageDone(p) /\ PageTime(p) > 120

\* number of pages attempted so far
Attempted == Cardinality({ k \in 1..Len(log) : log[k].op = "render" })

\* what the section of a finished page must hold
BodyOf(p) ==
    IF ~RenderOk(p) THEN "[Page rendering failed]"
    ELSE IF ExtractOk(p)
         THEN log[CHOOSE k \in Events("extract", p) : TRUE].result
         ELSE "[Text extraction failed for this page]"

\* the page sections "Page 1" .. "Page n" in ascending order, as one text
ExpectedSections(n) ==
    Join([k \in 1..n |->
            "## Page " \o ToString(k) \o "\n\n" \o BodyOf(k - 1) \o "\n\n---\n"])

ExpectedTitle == "# OCR Output for: " \o Join(CurrentFile.name) \o "\n\n"

ExpectedNote == "**Note:** Text extraction or page rendering failed for one or more pages. The output may be incomplete.\n\n---\n\n"

ExpectedPath == "md_docs/" \o Join(Stem(CurrentFile.name)) \o ".md"

\* every page of the file rendered and extracted usable text within budget
AllPagesFine ==
    \A p \in 0..(CurrentFile.pages - 1) :
        RenderOk(p) /\ ExtractOk(p) /\ ~OverBudget(p)

-----------------------------------------------------------------------------
\* C1: when every one of the N > 0 pages renders, extracts usable text and
\* stays within the budget, process_pdf returns (True, path) and the file at
\* path is the title followed by the sections Page 1 .. Page N in
\* ascending order, each with that page's text, and no failure note.
C1_AllPagesSucceed ==
    (pc = "returned" /\ CurrentFile.pages > 0 /\ AllPagesFine)
        => /\ ret = [success |-> TRUE, output_path |-> ExpectedPath]
           /\ storage[ExpectedPath] =
                 << ExpectedTitle, ExpectedSections(CurrentFile.pages) >>
           /\ \A p \in 0..(CurrentFile.pages - 1) :
                 BodyOf(p) = PageText(PageImage(p))

C1_Witness ==
    /\ pc = "returned"
    /\ CurrentFile.pages = 2
    /\ AllPagesFine
    /\ ret.success

-----------------------------------------------------------------------------
\* the pages the history mentions
LoggedPages == { log[k].page : k \in 1..Len(log) }

\* a page went over the budget after its rendering succeeded: the case in
\* which line 162 is evaluated and true
TimeoutDetected == \E p \in LoggedPages : RenderOk(p) /\ OverBudget(p)

\* C2: once a finished page has taken longer than the budget, whether its
\* rendering or its extraction succeeded or failed, no later page is
\* rendered, extracted or added to all_pages_text, and process_pdf
\* returns (False, None) leaving storage as it was.
C2_StopsAfterAnyOverBudgetPage ==
    \A p \in LoggedPages :
        OverBudget(p)
            => /\ \A k \in 1..Len(log) : log[k].page <= p
               /\ Len(all_pages_text) = p + 1
               /\ pc = "returned" => (ret = FailurePair /\ storage = storage0)

-----------------------------------------------------------------------------
\* C3: when every page of a non-empty document fails rendering or
\* extraction and no page goes over the budget, process_pdf returns
\* (False, None) and writes no file.
C3_NoPageSucceededIsFailure ==
    ( /\ pc = "returned"
      /\ CurrentFile.pages > 0
      /\ \A p \in 0..(CurrentFile.pages - 1) : PageFailed(p) /\ ~OverBudget(p) )
        => (ret = FailurePair /\ storage = storage0)

-----------------------------------------------------------------------------
\* page k failed rendering, every other page rendered and extracted usable
\* text, and no page went over the budget
OnlyRenderFailureAt(k) ==
    /\ RenderCalled(k) /\ ~RenderOk(k)
    /\ \A p \in 0..(CurrentFile.pages - 1) :
          /\ ~OverBudget(p)
          /\ p # k => (RenderOk(p) /\ ExtractOk(p))

-----------------------------------------------------------------------------
\* C5: for a readable document with no pages process_pdf returns
\* (False, None), calls neither the renderer nor the model, and leaves
\* storage as it was.
C5_EmptyDocument ==
    (pc = "returned" /\ CurrentFile.readable /\ CurrentFile.pages = 0)
        => /\ ret = FailurePair
           /\ log = << >>
           /\ storage = storage0

\* an empty document processed when its output path already holds a file
C5_Witness ==
    /\ pc = "returned"
    /\ CurrentFile.readable
    /\ CurrentFile.pages = 0
    /\ storage[ExpectedPath] # NoFile

-----------------------------------------------------------------------------
\* the pair process_pdf returns, from the file and its own page results only
OwnOutcome(file) ==
    IF file.readable /\ file.pages > 0 /\ ~TimeoutDetected
    THEN [success |-> TRUE,
          output_path |-> "md_docs/" \o Join(Stem(file.name)) \o ".md"]
    ELSE FailurePair

OwnEntry(file) ==
    [filename |-> file.name,
     success |-> OwnOutcome(file).success,
     output_path |-> OwnOutcome(file).output_path]

BatchState ==
    /\ Len(results_summary) = fileIdx - 1
    /\ Len(results_summary) <= Len(uploaded_files)
    /\ \A j \in 1..Len(results_summary) :
          results_summary[j].filename = uploaded_files[j].name
    /\ pc = "returned" => ret = OwnOutcome(CurrentFile)
    /\ (pc \in {"batch", "complete"} /\ fileIdx > 1)
          => /\ results_summary[fileIdx - 1] = OwnEntry(uploaded_files[fileIdx - 1])
             /\ Len(status_messages) = Len(results_summary)
    /\ pc = "complete" => Len(results_summary) = Len(uploaded_files)

\* entries already recorded are never altered or dropped
SummaryOnlyGrows ==
    /\ Len(results_summary') >= Len(results_summary)
    /\ \A j \in 1..Len(results_summary) : results_summary'[j] = results_summary[j]

\* C6: whatever the outcomes of the files of a batch, every file is
\* attempted, the summary ends with one entry per file in input order with
\* entry j naming file j, and the entry of a file is determined by that
\* file and its own page results, and is not changed by later files.
C6_BatchIsolation == []BatchState /\ [][SummaryOnlyGrows]_vars

\* a batch completed whose first file failed and whose second was written
C6_Witness ==
    /\ pc = "complete"
    /\ Len(results_summary) = 2
    /\ ~results_summary[1].success
    /\ results_summary[2].success

-----------------------------------------------------------------------------
\* C7: once the file is marked critically failed, nothing is written:
\* storage stays as it was when process_pdf was entered and the pair
\* returned is (False, None).
C7_TimeoutWritesNothing ==
    (InFile /\ ~processing_successful)
        => /\ storage = storage0
           /\ pc = "returned" => ret = FailurePair

\* the timeout hit the last page after an earlier page was extracted and
\* another page-level failure had occurred
C7_Witness ==
    /\ pc = "returned"
    /\ ~processing_successful
    /\ CurrentFile.pages = 2
    /\ RenderOk(0) /\ ExtractOk(0)
    /\ ModelCalled(1) /\ ~ExtractOk(1)
    /\ partial_success

-----------------------------------------------------------------------------
\* the pages rendered, in the order of the calls
RenderOrder == SelectSeq(log, LAMBDA e : e.op = "render")

\* C8: pages are attempted in the order 0, 1, 2, ..., each once; while the
\* loop runs the next page is the one after the last attempted; and the
\* loop ends before the last page only when the page just processed went
\* over the budget and the file was marked critically failed.
C8_AscendingAndOnlyTimeoutStops ==
    InFile =>
        /\ \A k \in 1..Len(RenderOrder) : RenderOrder[k].page = k - 1
        /\ \A p \in LoggedPages : Cardinality(Events("extract", p)) <= 1
        /\ pc = "loop" => (i = Attempted /\ i < num_pages /\ processing_successful)
        /\ pc = "extract" => (i = Attempted - 1 /\ i < num_pages)
        /\ (pc \in {"save", "returned"} /\ Attempted < CurrentFile.pages)
              => /\ ~processing_successful
                 /\ Attempted > 0
                 /\ RenderOk(Attempted - 1) /\ OverBudget(Attempted - 1)

\* every page of a two-page file was attempted although both failed
C8_Witness ==
    /\ pc = "returned"
    /\ CurrentFile.pages = 2
    /\ Attempted = 2
    /\ ~RenderOk(0)
    /\ ModelCalled(1) /\ ~ExtractOk(1)

-----------------------------------------------------------------------------
\* C9: the document process_pdf has written carries the note exactly when
\* at least one attempted page of the file failed rendering or extraction.
C9_NoteIffPageFailed ==
    (pc = "returned" /\ ret.success)
        => LET doc == storage[ret.output_path] IN
           /\ (\E c \in 1..Len(doc) : doc[c] = ExpectedNote)
                 <=> (\E p \in LoggedPages : PageFailed(p))
           /\ doc[Len(doc)] = ExpectedSections(Attempted)

\* a written document with the note, and one without
C9_Witness ==
    /\ pc = "returned"
    /\ ret.success
    /\ Len(storage[ret.output_path]) = 3
    /\ \E q \in Paths : Len(storage[q]) = 2

-----------------------------------------------------------------------------
\* C10: the summary entry of a partially processed file differs from the
\* entry of a fully processed file, so that the entry tells which it is.
C10_SummaryFlagsPartial ==
    \A j, k \in 1..Len(results_summary) :
        ( /\ status_messages[j] = "Successfully partially processed"
          /\ status_messages[k] = "Successfully processed" )
            => /\ results_summary[j] # results_summary[k]
               /\ SummaryLine(results_summary[j]) # SummaryLine(results_summary[k])

-----------------------------------------------------------------------------
\* the files recorded so far that wrote to path
Writers(path) == { j \in 1..Len(runs) : runs[j].ret.output_path = path }

LastOf(S) == CHOOSE j \in S : \A k \in S : k <= j

\* C11: a file that writes, writes to <OUTPUT_DIR>/<stem>.md; between files
\* and when the batch is complete, each path holds the document of the last
\* file in input order that wrote to it, an earlier document being kept
\* only when no later file wrote to the path, and a path no file wrote to
\* holds nothing.
C11_LastWriteWins ==
    pc \in {"batch", "complete"} =>
        /\ \A j \in 1..Len(runs) :
              runs[j].ret.output_path \in
                 { None, "md_docs/" \o Join(Stem(uploaded_files[j].name)) \o ".md" }
        /\ \A path \in Paths :
              storage[path] = IF Writers(path) = {} THEN NoFile
                              ELSE runs[LastOf(Writers(path))].doc

\* two files of the same name wrote different documents
C11_Witness ==
    /\ pc = "complete"
    /\ Len(runs) = 2
    /\ uploaded_files[1].name = uploaded_files[2].name
    /\ runs[1].ret.success /\ runs[2].ret.success
    /\ runs[1].doc # runs[2].doc
    /\ storage[runs[2].ret.output_path] = runs[2].doc

-----------------------------------------------------------------------------
\* the content stored at the path process_pdf has just returned
StoredNow == IF ret.output_path = None THEN NoFile ELSE storage[ret.output_path]

\* the file just processed is the same document as the file before it, and
\* the renderer and the model returned the same for every page, with the
\* same pages over the budget
SameRunAsBefore ==
    /\ pc = "returned"
    /\ fileIdx > 1
    /\ uploaded_files[fileIdx] = uploaded_files[fileIdx - 1]
    /\ RunInputs = prev_inputs

\* C12: processing the same document again, with the renderer and the
\* model returning the same for every page and the same pages over the
\* budget, returns the same pair and stores the same content, whatever
\* the times taken and whatever the first run left in storage.
C12_SameInputsSameOutput ==
    SameRunAsBefore
        => /\ ret = runs[fileIdx - 1].ret
           /\ StoredNow = runs[fileIdx - 1].stored

\* a document processed twice with a page failure, written both times
C12_Witness ==
    /\ SameRunAsBefore
    /\ ret.success
    /\ partial_success
    /\ \E k \in 1..Len(log) : log[k].time # 1 /\ log[k].op = "render"

-----------------------------------------------------------------------------
\* the step-by-step call returns what the one-step operator says
RenderStepsAgree ==
    r_pc = "done" =>
        r_out = render_pdf_page_as_image_bytes(r_in.file, r_in.page_num,
                                               r_in.fault # "none")

\* C13: once render_pdf_page_as_image_bytes has returned, with image bytes
\* or with None, the document handle it opened is no longer open.
C13_HandleReleasedOnReturn ==
    r_pc = "done" => r_doc # "open"

-----------------------------------------------------------------------------
\* the j-th section (1-based) a finished page must have produced
ExpectedSection(j) ==
    "## Page " \o ToString(j) \o "\n\n" \o BodyOf(j - 1) \o "\n\n---\n"

\* pages that have been through the loop body
PagesDone == Cardinality({ p \in LoggedPages : PageDone(p) })

\* C14: at every point of the loop all_pages_text has exactly one entry per
\* page that has been through the loop body, a page that then timed out
\* included, and entry j is the section headed "Page j" with that page's
\* text or placeholder: the run Page 1 .. Page k without gap, duplicate
\* or reordering.
C14_OneSectionPerAttemptedPage ==
    InFile =>
        /\ Len(all_pages_text) = PagesDone
        /\ pc # "extract" => Len(all_pages_text) = Attempted
        /\ pc = "extract" => Len(all_pages_text) = Attempted - 1
        /\ \A j \in 1..Len(all_pages_text) :
              /\ PageDone(j - 1)
              /\ all_pages_text[j] = ExpectedSection(j)

\* two pages attempted: the first failed extraction, the second timed out
C14_Witness ==
    /\ pc = "save"
    /\ Len(all_pages_text) = 2
    /\ RenderOk(0) /\ ~ExtractOk(0)
    /\ ~processing_successful

-----------------------------------------------------------------------------
\* files whose final status line has been written
Outcomes == Len(status_messages)

\* no page is attempted twice, no more pages than the file has are
\* attempted, and each file gets one outcome and one summary entry
ProcessedOnce ==
    /\ InFile =>
          /\ Attempted <= CurrentFile.pages
          /\ \A p \in LoggedPages :
                /\ Cardinality(Events("render", p)) = 1
                /\ Cardinality(Events("extract", p)) <= 1
    /\ Outcomes = IF pc = "returned" THEN fileIdx ELSE fileIdx - 1
    /\ Len(results_summary) = fileIdx - 1
    /\ fileIdx <= Len(uploaded_files) + 1
    /\ pc = "complete" =>
          /\ Outcomes = Len(uploaded_files)
          /\ Len(results_summary) = Len(uploaded_files)

RECURSIVE StepsFrom(_)
\* steps the files from position j on can still take: per file the entry,
\* two per page, the saving and the recording
StepsFrom(j) ==
    IF j > Len(uploaded_files) THEN 0
    ELSE 2 * uploaded_files[j].pages + 3 + StepsFrom(j + 1)

\* an upper bound of the steps left before "processing complete"
StepsLeft ==
    IF pc = "complete" THEN 0
    ELSE IF pc = "batch" THEN 1 + StepsFrom(fileIdx)
    ELSE 1 + StepsFrom(fileIdx + 1)
           + (IF pc = "loop" THEN 2 * (num_pages - i) + 2
              ELSE IF pc = "extract" THEN 2 * (num_pages - i) + 1
              ELSE IF pc = "save" THEN 2
              ELSE 1)

\* C15: when every render call and model call returns, each file reaches
\* one outcome after at most PageCount page iterations without retrying a
\* page or a file; until "processing complete" a step is always possible
\* and every step lowers the number of steps left, so the batch reaches
\* "processing complete" with one outcome per file.
C15_Terminates ==
    /\ []ProcessedOnce
    /\ [](pc = "complete" \/ ENABLED Next)
    /\ [][StepsLeft' < StepsLeft]_vars

\* under the fairness of FairSpec the batch ends in "processing complete"
EventuallyComplete == <>[](pc = "complete")

\* a batch of two files completed, the second with two pages attempted
C15_Witness ==
    /\ pc = "complete"
    /\ Len(results_summary) = 2
    /\ Attempted = 2

-----------------------------------------------------------------------------
\* the model call of a page has just returned, or returned before the loop
\* was left
LastIsExtract == Len(log) > 0 /\ log[Len(log)].op = "extract"

LastPage == log[Len(log)].page

\* C16: the time compared with the budget is that of one page, from the
\* start of its render to the end of its model call, without the sleeps
\* and without earlier pages; the file is marked critically failed exactly
\* when that time is strictly greater than 120 s, so a file whose pages
\* each take at most 120 s is never aborted, however long the file takes.
C16_BudgetPerPageAndStrict ==
    InFile =>
        /\ LastIsExtract => elapsed_time_page = 10 * PageTime(LastPage)
        /\ ~processing_successful
              <=> (LastIsExtract /\ PageTime(LastPage) > 120)
        /\ (\A p \in LoggedPages : PageTime(p) <= 120) => processing_successful

\* two pages of exactly 120 s each, the file written after more than 240 s
C16_Witness ==
    /\ pc = "returned"
    /\ CurrentFile.pages = 2
    /\ ModelCalled(0) /\ PageTime(0) = 120
    /\ ModelCalled(1) /\ PageTime(1) = 120
    /\ clock > 10 * 240
    /\ ret.success

-----------------------------------------------------------------------------
\* the complete document of the current file
ExpectedDocument ==
    << ExpectedTitle >>
        \o (IF \E p \in LoggedPages : PageFailed(p) THEN << ExpectedNote >>
            ELSE << >>)
        \o << ExpectedSections(CurrentFile.pages) >>

\* C17: on every return of process_pdf, the flag returned is True exactly
\* when the path returned is not None, and a path is returned only when
\* this call has written the complete document to it; an empty document,
\* a timeout, an unreadable document and a failed write all return
\* (False, None).
C17_ReturnPairConsistent ==
    pc = "returned" =>
        /\ ret.success <=> ret.output_path # None
        /\ ret.output_path # None
              => /\ written = "complete"
                 /\ ret.output_path = ExpectedPath
                 /\ storage[ret.output_path] = ExpectedDocument
        /\ ret.output_path = None => written # "complete"

\* a write that failed half way: a truncated file is left, no path returned
C17_Witness ==
    /\ pc = "returned"
    /\ written = "partial"
    /\ ret = FailurePair
    /\ storage[ExpectedPath] # storage0[ExpectedPath]
    /\ storage[ExpectedPath] # ExpectedDocument

-----------------------------------------------------------------------------
\* C18: a document that process_pdf has written holds exactly one section
\* for every page of the input, headed "Page 1" .. "Page PageCount" in this
\* order, each with the page's text or a failure placeholder; no page is
\* missing and the sections never stop before the last page.
C18_WrittenDocumentCoversAllPages ==
    (pc = "returned" /\ written = "complete")
        => LET n == CurrentFile.pages
               doc == storage[ExpectedPath]
           IN  /\ n >= 1
               /\ LoggedPages = 0..(n - 1)
               /\ \A p \in 0..(n - 1) : PageDone(p)
               /\ Len(all_pages_text) = n
               /\ doc[Len(doc)] = Join([j \in 1..n |-> ExpectedSection(j)])
               /\ \A k \in 0..(n - 1) : doc[Len(doc)] # ExpectedSections(k)

\* a written document of two pages whose last page is a placeholder
C18_Witness ==
    /\ pc = "returned"
    /\ written = "complete"
    /\ CurrentFile.pages = 2
    /\ ~PageFailed(0)
    /\ PageFailed(1)

-----------------------------------------------------------------------------
\* the model call for page p returned the empty string
EmptyResponse(p) == \E k \in Events("extract", p) : log[k].result = ""

\* C19: a page that rendered and for which the model returned "" gets the
\* extraction-failure placeholder as its section, not an empty section, and
\* the file is marked partial: a document written has the note and the
\* status says "partially".
C19_EmptyTextIsExtractionFailure ==
    InFile =>
        \A p \in LoggedPages :
            EmptyResponse(p) =>
                /\ RenderOk(p)
                /\ Len(all_pages_text) > p
                /\ all_pages_text[p + 1] =
                       "## Page " \o ToString(p + 1)
                           \o "\n\n[Text extraction failed for this page]\n\n---\n"
                /\ all_pages_text[p + 1] #
                       "## Page " \o ToString(p + 1) \o "\n\n\n\n---\n"
                /\ partial_success
                /\ (pc = "returned" /\ ret.success)
                      => /\ storage[ret.output_path][2] = ExpectedNote
                         /\ status_messages[Len(status_messages)]
                                = "Successfully partially processed"

\* a one-page document whose only model response is "" is written
C19_Witness ==
    /\ pc = "returned"
    /\ ret.success
    /\ CurrentFile.pages = 1
    /\ EmptyResponse(0)

====
